---- MODULE Spec2Model ----
(***************************************************************************)
(* The example scripts of backend/python/examples as a state machine.      *)
(*                                                                         *)
(* A script is the sequence of its top-level statements; one step runs one *)
(* top-level statement (a try statement takes one step per clause).  The   *)
(* Python heap, namespace, standard streams and working directory are the  *)
(* record mem.  A statement that raises an exception no handler catches    *)
(* ends the script (uncaught names the exception).  The classes and        *)
(* functions a script defines are also exercised by an arbitrary caller    *)
(* (driver = "client"), which calls them in any order.                     *)
(***************************************************************************)
EXTENDS Integers, Sequences, FiniteSets

VARIABLES driver, script, unit, pc, try, uncaught, mem, calls

vars == <<driver, script, unit, pc, try, uncaught, mem, calls>>

\* ------------------------------------------------------------------ bounds

\* Longest line typed on standard input.
MaxLen == 2
\* Largest max a caller passes to Pow_of_Two.
MaxPow == 3
\* Calls a caller makes on one iterator or generator.
MaxCalls == 8
\* Calls a caller makes of go_divide.
MaxDivCalls == 2
\* Largest absolute value of an argument of go_divide.
MaxArg == 1

\* ------------------------------------------------------------------ values

NoneV == [t |-> "None", n |-> 0, d |-> 1]
IntV(v) == [t |-> "int", n |-> v, d |-> 1]
\* The float a / b, kept as the fraction it was computed from.
FloatV(a, b) == [t |-> "float", n |-> a, d |-> b]
\* The tuple (k, v).
PairV(k, v) == [t |-> "pair", n |-> k, d |-> v]

\* One line written to standard output: its text and the values formatted in.
Line(txt) == [txt |-> txt, args |-> <<>>]
LineV(txt, args) == [txt |-> txt, args |-> args]

RECURSIVE Lines(_)
Lines(txts) == IF txts = <<>> THEN <<>> ELSE <<Line(Head(txts))>> \o Lines(Tail(txts))

\* ------------------------------------------------------------- statements

Stmt(line, op, uses, arg) == [line |-> line, op |-> op, uses |-> uses, arg |-> arg]
\* print(...) calls, def/class/import/assignment, or both (a loop that prints).
Exec(line, uses, binds, txts) == Stmt(line, "exec", uses, [binds |-> binds, prints |-> Lines(txts)])
Prints(line, uses, txts) == Exec(line, uses, {}, txts)
Bind(line, uses, binds) == Exec(line, uses, binds, <<>>)
\* except <kinds>: (all is the bare except:)
Handler(line, all, kinds, body) == [line |-> line, all |-> all, kinds |-> kinds, body |-> body]
Try(line, body, handlers, finally) ==
    Stmt(line, "try", {}, [body |-> body, handlers |-> handlers, finally |-> finally])

\* The names of the working directory the scripts touch.
Names == {"Test.txt", "test_folder", "New_folder", "example.txt"}
\* What a name is in the working directory (fulldir: a directory that is not empty).
Kinds == {"absent", "file", "dir", "fulldir"}
\* The variables whose values the model keeps.
VarNames == {"a", "b", "c", "x", "y", "z", "i", "our_iter", "item"}
\* The objects a script creates.
ObjIds == {"o1", "o2", "o3"}

\* -------------------------------------------------------------- example5.py

example5 ==
    << Prints(4, {}, <<"True">>), Prints(5, {}, <<"False">>),
       Prints(8, {}, <<"False">>), Prints(9, {}, <<"False">>),
       Prints(10, {}, <<"False">>), Prints(11, {}, <<"True">>),
       Bind(14, {}, {"a_void_function"}),
       Bind(18, {"a_void_function"}, {"x"}),
       Prints(19, {"x"}, <<"None">>),
       Prints(22, {}, <<"False">>), Prints(23, {}, <<"True">>), Prints(24, {}, <<"False">>),
       Bind(27, {}, {"myMath"}),
       Prints(28, {"myMath"}, <<"-1.0">>),
       Stmt(31, "assert", {}, 5 > 5),
       Stmt(32, "assert", {}, 5 = 5),
       Exec(35, {}, {"i"}, <<"1", "2", "3", "4">>),
       Exec(41, {}, {"i"}, <<"1", "2", "3", "4", "6", "7", "8", "9", "10">>),
       Bind(47, {}, {"ExampleClass"}),
       Bind(53, {"ExampleClass"}, {"obj1"}),
       Prints(54, {"obj1"}, <<"Invoking function1 with params... 1">>),
       Prints(55, {"obj1"}, <<"Invoking function2 with params... 2">>),
       Bind(58, {}, {"function_name"}),
       Prints(61, {"function_name"}, <<"hi">>),
       Bind(64, {}, {"a"}),
       Prints(65, {"a"}, <<"10">>),
       Stmt(66, "del", {}, "a"),
       Prints(67, {"a"}, <<"10">>),
       Bind(70, {}, {"num"}),
       Prints(71, {"num"}, <<"Two">>),
       Try(79, << Bind(80, {}, {"x"}), Stmt(81, "raise", {}, "ZeroDivisionError") >>,
               << Handler(82, FALSE, {"ZeroDivisionError"},
                          Prints(83, {}, <<"Division Cannot be performed">>)) >>,
               << Prints(85, {}, <<"Execution success">>) >>),
       Exec(88, {}, {"i"}, <<"1", "2", "3", "4", "5", "6", "7", "8", "9">>),
       Bind(92, {}, {"math"}),
       Bind(93, {}, {"cos"}),
       Prints(94, {"cos"}, <<"-0.8390715290764524">>),
       Bind(97, {}, {"globalVar"}),
       Bind(98, {}, {"read1"}), Bind(100, {}, {"write1"}), Bind(103, {}, {"write2"}),
       Prints(105, {"read1", "globalVar"}, <<"10">>),
       Bind(106, {"write1"}, {"globalVar"}),
       Prints(107, {"read1", "globalVar"}, <<"5">>),
       Bind(108, {"write2"}, {}),
       Prints(109, {"read1", "globalVar"}, <<"5">>),
       Bind(112, {}, {"a"}),
       Prints(113, {"a"}, <<"True">>), Prints(114, {"a"}, <<"True">>),
       Prints(117, {}, <<"True">>), Prints(118, {}, <<"False">>),
       Bind(121, {}, {"a"}),
       Exec(122, {"a"}, {"i"}, <<"2", "4", "6", "8">>),
       Bind(126, {}, {"outer_func"}),
       Prints(134, {"outer_func"}, <<"inner function 10", "outer function 10">>),
       Bind(137, {}, {"function1"}),
       Bind(141, {}, {"functionWithReturnValue"}),
       Prints(144, {"functionWithReturnValue"}, <<"10">>),
       Bind(147, {}, {"i"}),
       Exec(148, {"i"}, {"i"}, <<"5", "4", "3", "2", "1">>),
       Stmt(153, "open_w", {}, "example.txt"),
       Bind(157, {}, {"generator"}),
       Bind(160, {"generator"}, {"g"}),
       Exec(161, {"g"}, {"i"}, <<"0", "1", "4", "9", "16", "25">>) >>

\* ------------------------------------------- directory_and_filemanage9.py

directory_and_filemanage9 ==
    << Bind(1, {}, {"os"}), Bind(2, {}, {"stat"}),
       Prints(3, {"os"}, <<"<cwd>">>), Prints(4, {"os"}, <<"<cwd bytes>">>),
       Stmt(7, "chdir", {"os"}, "/Users/srinu/Documents/frontend-prep/backend/python"),
       Prints(8, {"os"}, <<"<cwd>">>), Prints(9, {"os"}, <<"<listdir>">>),
       Stmt(11, "mkdir", {"os"}, "test_folder"),
       Stmt(13, "rename", {"os"}, <<"test_folder", "New_folder">>),
       Stmt(15, "chmod", {"os", "stat"}, "New_folder"),
       Stmt(17, "remove", {"os"}, "Test.txt"),
       Stmt(19, "rmdir", {"os"}, "Test.txt") >>

\* ------------------------------------------------------------- example26.py

example26 ==
    << Try(2, << Stmt(3, "int_input", {}, [var |-> "a", prompt |-> "Please enter the first number:"]),
                 Stmt(4, "int_input", {}, [var |-> "b", prompt |-> "Please enter the second number:"]),
                 Stmt(5, "raise_if_neg", {"a"}, [var |-> "a", exc |-> "TypeError"]),
                 Stmt(7, "truediv", {"a", "b"}, [x |-> "a", y |-> "b", z |-> "c"]),
                 Stmt(8, "print_fmt", {"a", "b", "c"},
                      [fmt |-> "{} / {} = {}", vars |-> <<"a", "b", "c">>]) >>,
              << Handler(9, FALSE, {"ZeroDivisionError"},
                         Prints(10, {}, <<"Division by zero is not possible...">>)),
                 Handler(11, FALSE, {"ValueError"},
                         Prints(12, {}, <<"The data types are not proper...">>)),
                 Handler(13, FALSE, {"TypeError"},
                         Prints(14, {}, <<"The data is not in range...">>)),
                 Handler(15, TRUE, {},
                         Prints(16, {}, <<"default exception handling if none of the exception matches...">>)) >>,
              << Prints(18, {}, <<"Anyways i will exceute">>) >>) >>

\* ------------------------------------------------- error_and_exception25.py

error_and_exception25 ==
    << Try(2, << Stmt(6, "assign_str", {}, [var |-> "a", s |-> <<"h", "i">>]),
                 Stmt(7, "int_of", {"a"}, [var |-> "b", from |-> "a"]),
                 Stmt(8, "print_fmt", {"b"}, [fmt |-> "Value of b: {}", vars |-> <<"b">>]) >>,
              << Handler(9, TRUE, {}, Prints(10, {}, <<"Exception Caught!">>)) >>,
              << >>),
       Try(14, << Stmt(15, "assign", {}, [var |-> "x", v |-> 5]),
                  Stmt(16, "assign", {}, [var |-> "y", v |-> 0]),
                  Stmt(17, "truediv", {"x", "y"}, [x |-> "x", y |-> "y", z |-> "z"]) >>,
               << Handler(18, FALSE, {"ZeroDivisionError"},
                          Prints(19, {}, <<"Division by Zero is not possible.">>)) >>,
               << >>),
       Try(22, << Stmt(23, "raise", {}, "TypeError") >>,
               << Handler(24, FALSE, {"TypeError"}, Prints(25, {}, <<"Type Exception Caught!">>)) >>,
               << >>),
       Try(28, << Prints(29, {}, <<"Im in Try block">>),
                  Stmt(30, "raise", {}, "TypeError") >>,
               << Handler(31, TRUE, {}, Prints(32, {}, <<"Im in Except block">>)) >>,
               << Prints(34, {}, <<"Im in finally block">>) >>) >>

\* ------------------------------------------------------------- example33.py

\* The body of my_generator, one entry per yield: the statements before it
\* (n = k or n += k, then print(txt)) and the line of the yield.
my_generator ==
    << [line |-> 3, assign |-> TRUE, k |-> 1, txt |-> "This is printed first", yield |-> 6],
       [line |-> 8, assign |-> FALSE, k |-> 1, txt |-> "This is printed second", yield |-> 10],
       [line |-> 12, assign |-> FALSE, k |-> 1, txt |-> "This is printed third", yield |-> 14] >>

example33 ==
    << Bind(2, {}, {"my_generator"}),
       Stmt(16, "gen_new", {"my_generator"}, [var |-> "a", id |-> "o1"]),
       Stmt(18, "next", {"a"}, [var |-> "a", show |-> FALSE]),
       Stmt(19, "next", {"a"}, [var |-> "a", show |-> FALSE]),
       Stmt(20, "next", {"a"}, [var |-> "a", show |-> FALSE]),
       Prints(22, {}, <<"Using for loop...">>),
       Stmt(24, "for_gen", {"my_generator"}, [var |-> "item", id |-> "o2"]),
       Bind(29, {}, {"reverse_string"}),
       Exec(36, {"reverse_string"}, {"char"}, <<"d", "l", "r", "o", "W">>) >>

\* ------------------------------------------------------------- example17.py

example17 ==
    << Bind(2, {}, {"our_list"}),
       Stmt(5, "list_iter", {"our_list"}, [var |-> "our_iter", id |-> "o1", items |-> <<44, 77, 11, 33>>]),
       Stmt(8, "next", {"our_iter"}, [var |-> "our_iter", show |-> TRUE]),
       Stmt(9, "next", {"our_iter"}, [var |-> "our_iter", show |-> TRUE]),
       Stmt(12, "next", {"our_iter"}, [var |-> "our_iter", show |-> TRUE]),
       Stmt(14, "next", {"our_iter"}, [var |-> "our_iter", show |-> TRUE]),
       Bind(21, {}, {"Pow_of_Two"}),
       Prints(40, {"Pow_of_Two"}, <<"class to implement an iterator of power of two">>),
       Stmt(41, "pow_new", {"Pow_of_Two"}, [var |-> "a", id |-> "o2", max |-> 4]),
       Stmt(42, "iter", {"a"}, [var |-> "i", of |-> "a"]),
       Stmt(43, "next", {"i"}, [var |-> "i", show |-> TRUE]),
       Stmt(44, "next", {"i"}, [var |-> "i", show |-> TRUE]),
       Stmt(45, "next", {"i"}, [var |-> "i", show |-> TRUE]),
       Bind(49, {}, {"Infinite_Iter"}),
       Stmt(61, "inf_new", {"Infinite_Iter"}, [var |-> "i", id |-> "o3"]),
       Stmt(62, "iter", {"i"}, [var |-> "a", of |-> "i"]),
       Prints(63, {"i"}, <<"Infinite Iterator to return all odd numbers">>),
       Stmt(64, "next", {"a"}, [var |-> "a", show |-> TRUE]),
       Stmt(65, "next", {"a"}, [var |-> "a", show |-> TRUE]),
       Stmt(66, "next", {"a"}, [var |-> "a", show |-> TRUE]),
       Stmt(67, "next", {"a"}, [var |-> "a", show |-> TRUE]) >>

\* ----------------------------------------------------------- decorators34.py

decorators34 ==
    << Bind(3, {}, {"make_decorated"}),
       Bind(9, {}, {"simple_func"}),
       Bind(12, {"make_decorated", "simple_func"}, {"decor"}),
       Prints(13, {"decor"}, <<"I got decorated.", "I am a simple function">>),
       Bind(18, {}, {"make_decorated"}),
       Bind(24, {"make_decorated"}, {"simple_func"}),
       Prints(28, {"simple_func"}, <<"I got decorated.", "I am a simple function">>),
       Bind(31, {}, {"my_smart_div"}),
       Bind(40, {"my_smart_div"}, {"go_divide"}),
       Stmt(44, "call_show", {"go_divide"}, [txt |-> "20/2", x |-> 20, y |-> 2]) >>

\* -------------------------------------------------------------- example10.py

example10 ==
    << Bind(2, {}, {"new_dict"}),
       Prints(3, {"new_dict"}, <<"{1: 'Hello', 2: 'Hi', 3: 'Hola'}">>),
       Prints(4, {"new_dict"}, <<"Hello">>),
       Prints(5, {"new_dict"}, <<"Hi">>),
       Bind(8, {"new_dict"}, {}),
       Prints(9, {"new_dict"}, <<"{1: 'Hey', 2: 'Hi', 3: 'Hola'}">>),
       Bind(12, {"new_dict"}, {}),
       Prints(13, {"new_dict"}, <<"{1: 'Hey', 2: 'Hi', 3: 'Hola', 4: 'Namste'}">>),
       Stmt(16, "dict_new", {}, <<PairV(1, 1), PairV(2, 4), PairV(3, 9), PairV(4, 16), PairV(5, 25)>>),
       Stmt(17, "dict_show", {"squares"}, 0),
       Stmt(20, "dict_pop", {"squares"}, 4),
       Stmt(21, "dict_show", {"squares"}, 0),
       Stmt(24, "dict_popitem", {"squares"}, 0),
       Stmt(25, "dict_show", {"squares"}, 0),
       Stmt(28, "dict_del", {"squares"}, 1),
       Stmt(29, "dict_show", {"squares"}, 0),
       Stmt(32, "dict_clear", {"squares"}, 0),
       Stmt(33, "dict_show", {"squares"}, 0),
       Stmt(36, "del", {}, "squares"),
       Bind(40, {}, {"squares1"}),
       Prints(41, {"squares1"}, <<"{0: 0, 1: 1, 2: 4, 3: 9, 4: 16, 5: 25}">>),
       Bind(44, {}, {"squares2"}),
       Prints(45, {"squares2"}, <<"True">>),
       Prints(46, {"squares2"}, <<"True">>),
       Prints(47, {"squares2"}, <<"False">>),
       Exec(50, {"squares2"}, {"i"}, <<"1", "9", "25", "49", "81">>),
       Prints(54, {"squares2"}, <<"5">>),
       Prints(55, {"squares2"}, <<"[1, 3, 5, 7, 9]">>) >>

\* -------------------------------------------------------------- example16.py

\* The body of func2, nested in func1.
func2 ==
    << Stmt(4, "global", {}, "x"),
       Stmt(5, "store", {}, [var |-> "x", v |-> 25]) >>

\* The body of func1.
func1 ==
    << Stmt(2, "store", {}, [var |-> "x", v |-> 20]),
       Stmt(3, "def", {}, "func2"),
       Stmt(7, "print_name", {}, [txt |-> "Before calling function2:", var |-> "x"]),
       Stmt(8, "print", {}, "Calling func2 now..."),
       Stmt(9, "call_fn", {}, "func2"),
       Stmt(10, "print_name", {}, [txt |-> "After calling func2:", var |-> "x"]) >>

example16 ==
    << Stmt(1, "def", {}, "func1"),
       Stmt(12, "call_fn", {}, "func1"),
       Stmt(13, "print_name", {}, [txt |-> "Global x", var |-> "x"]) >>

\* ---------------------------------------------------------------- programs

Scripts ==
    {"example5", "directory_and_filemanage9", "example26", "error_and_exception25",
     "example33", "example17", "decorators34", "example10", "example16"}

Program(s) ==
    CASE s = "example5" -> example5
      [] s = "directory_and_filemanage9" -> directory_and_filemanage9
      [] s = "example26" -> example26
      [] s = "error_and_exception25" -> error_and_exception25
      [] s = "example33" -> example33
      [] s = "example17" -> example17
      [] s = "decorators34" -> decorators34
      [] s = "example10" -> example10
      [] s = "example16" -> example16

\* ------------------------------------------------------- effects of one op

Ok(m) == [m |-> m, exc |-> "None", ret |-> NoneV]
Raise(m, e) == [m |-> m, exc |-> e, ret |-> NoneV]

\* os.mkdir(name)
os_mkdir(m, name) ==
    IF m.fs[name] # "absent" THEN Raise(m, "FileExistsError")
    ELSE Ok([m EXCEPT !.fs[name] = "dir", !.created = @ \cup {name}])

\* os.rename(src, dst), POSIX rename(2)
os_rename(m, src, dst) ==
    LET moved == [m EXCEPT !.fs[src] = "absent", !.fs[dst] = m.fs[src],
                           !.created = IF src \in m.created
                                       THEN (@ \ {src}) \cup {dst} ELSE @ \ {dst}]
    IN  CASE m.fs[src] = "absent" -> Raise(m, "FileNotFoundError")
          [] m.fs[src] # "absent" /\ m.fs[dst] = "absent" -> Ok(moved)
          [] m.fs[src] = "file" /\ m.fs[dst] = "file" -> Ok(moved)
          [] m.fs[src] = "file" /\ m.fs[dst] \in {"dir", "fulldir"} -> Raise(m, "IsADirectoryError")
          [] m.fs[src] \in {"dir", "fulldir"} /\ m.fs[dst] = "file" -> Raise(m, "NotADirectoryError")
          [] m.fs[src] \in {"dir", "fulldir"} /\ m.fs[dst] = "dir" -> Ok(moved)
          [] m.fs[src] \in {"dir", "fulldir"} /\ m.fs[dst] = "fulldir" -> Raise(m, "OSError")

\* os.chmod(name, mode)
os_chmod(m, name) ==
    IF m.fs[name] = "absent" THEN Raise(m, "FileNotFoundError") ELSE Ok(m)

\* os.remove(name)
os_remove(m, name) ==
    CASE m.fs[name] = "absent" -> Raise(m, "FileNotFoundError")
      [] m.fs[name] \in {"dir", "fulldir"} -> Raise(m, "IsADirectoryError")
      [] m.fs[name] = "file" -> Ok([m EXCEPT !.fs[name] = "absent", !.created = @ \ {name}])

\* os.rmdir(name)
os_rmdir(m, name) ==
    CASE m.fs[name] = "absent" -> Raise(m, "FileNotFoundError")
      [] m.fs[name] = "file" -> Raise(m, "NotADirectoryError")
      [] m.fs[name] = "fulldir" -> Raise(m, "OSError")
      [] m.fs[name] = "dir" -> Ok([m EXCEPT !.fs[name] = "absent", !.created = @ \ {name}])

\* os.chdir(path): the directory the rest of the script works in.
os_chdir(m) ==
    IF m.cwdExists THEN Ok(m) ELSE Raise(m, "FileNotFoundError")

\* with open(name, 'w') as f: f.write(...)
open_w(m, name) ==
    CASE m.fs[name] \in {"dir", "fulldir"} -> Raise(m, "IsADirectoryError")
      [] m.fs[name] = "file" -> Ok(m)
      [] m.fs[name] = "absent" -> Ok([m EXCEPT !.fs[name] = "file", !.created = @ \cup {name}])

\* del name
del_name(m, name) ==
    IF name \in m.bound THEN Ok([m EXCEPT !.bound = @ \ {name}]) ELSE Raise(m, "NameError")

\* assert cond (python -O compiles assert statements away)
assert_stmt(m, cond) ==
    IF cond \/ m.optimize THEN Ok(m) ELSE Raise(m, "AssertionError")

\* The characters a line of standard input is made of.
Chars == {"-", "0", "1", "x"}
Digits == <<"0", "1", "2", "3", "4", "5", "6", "7", "8", "9">>

IsDigit(c) == \E k \in 1..10 : Digits[k] = c
DigitVal(c) == (CHOOSE k \in 1..10 : Digits[k] = c) - 1

RECURSIVE Decimal(_)
Decimal(s) ==
    IF s = <<>> THEN 0
    ELSE 10 * Decimal(SubSeq(s, 1, Len(s) - 1)) + DigitVal(s[Len(s)])

\* int(s) of a string: an optional sign and one or more decimal digits; anything
\* else is a ValueError (ok = FALSE).  The lines of Chars hold no blank and no
\* underscore, the two other things int() accepts.
ParseInt(s) ==
    LET signed == s # <<>> /\ s[1] \in {"-", "+"}
        body == IF signed THEN Tail(s) ELSE s
        good == body # <<>> /\ \A k \in 1..Len(body) : IsDigit(body[k])
    IN  IF ~good THEN [ok |-> FALSE, v |-> 0]
        ELSE [ok |-> TRUE, v |-> IF signed /\ s[1] = "-" THEN -Decimal(body) ELSE Decimal(body)]

Assign(m, var, v) == [m EXCEPT !.val[var] = v, !.bound = @ \cup {var}]

\* var = int(input(prompt)): the prompt goes to standard output, one line is read.
int_input(m, var, prompt) ==
    LET shown == [m EXCEPT !.out = Append(@, Line(prompt))]
    IN  IF m.rd > Len(m.stdin) THEN Raise(shown, "EOFError")
        ELSE LET got == [shown EXCEPT !.rd = @ + 1]
                 p == ParseInt(m.stdin[m.rd])
             IN  IF p.ok THEN Ok(Assign(got, var, IntV(p.v))) ELSE Raise(got, "ValueError")

\* var = int(from), from a string variable
int_of(m, var, from) ==
    LET p == ParseInt(m.str[from])
    IN  IF p.ok THEN Ok(Assign(m, var, IntV(p.v))) ELSE Raise(m, "ValueError")

\* if(var < 0): raise exc
raise_if_neg(m, var, exc) ==
    IF m.val[var].n < 0 THEN Raise(m, exc) ELSE Ok(m)

\* z = x / y
truediv(m, x, y, z) ==
    IF m.val[y].n = 0 THEN Raise(m, "ZeroDivisionError")
    ELSE Ok(Assign(m, z, FloatV(m.val[x].n, m.val[y].n)))

\* print(fmt.format(vars...))
print_fmt(m, fmt, vs) ==
    Ok([m EXCEPT !.out = Append(@, LineV(fmt, [k \in 1..Len(vs) |-> m.val[vs[k]]]))])

\* ----------------------------------------------------------------- objects

\* An object: its class and its attributes (has: the attribute n, or num, is
\* set; at: how many yields a generator has passed; items: a list iterator's list).
NoObj == [cls |-> "none", max |-> 0, has |-> FALSE, n |-> 0, num |-> 0, at |-> 0, items |-> <<>>]
Result(m, v) == [m |-> m, exc |-> "None", ret |-> v]

RECURSIVE Pow(_, _)
\* b ** e
Pow(b, e) == IF e = 0 THEN 1 ELSE b * Pow(b, e - 1)

\* Pow_of_Two.__init__(self, max)
Pow_of_Two__init__(max) == [NoObj EXCEPT !.cls = "Pow_of_Two", !.max = max]

\* Pow_of_Two.__iter__(self)
Pow_of_Two__iter__(self) == [self EXCEPT !.has = TRUE, !.n = 0]

Pow_of_Two__next___Strict(self) ==
    IF ~self.has THEN [self |-> self, exc |-> "AttributeError", ret |-> NoneV]
    ELSE IF self.n < self.max
         THEN [self |-> [self EXCEPT !.n = @ + 1], exc |-> "None", ret |-> IntV(Pow(2, self.n))]
         ELSE [self |-> self, exc |-> "StopIteration", ret |-> NoneV]

\* Pow_of_Two.__next__(self): the object after the call, the value returned and
\* the exception raised.
Pow_of_Two__next__(self) ==
    IF ~self.has THEN [self |-> self, exc |-> "AttributeError", ret |-> NoneV]
    ELSE IF self.n <= self.max
         THEN [self |-> [self EXCEPT !.n = @ + 1], exc |-> "None", ret |-> IntV(Pow(2, self.n))]
         ELSE [self |-> self, exc |-> "StopIteration", ret |-> NoneV]

\* Infinite_Iter.__iter__(self)
Infinite_Iter__iter__(self) == [self EXCEPT !.has = TRUE, !.num = 1]

Infinite_Iter__next___ByOne(self) ==
    IF ~self.has THEN [self |-> self, exc |-> "AttributeError", ret |-> NoneV]
    ELSE [self |-> [self EXCEPT !.num = @ + 1], exc |-> "None", ret |-> IntV(self.num)]

\* Infinite_Iter.__next__(self)
Infinite_Iter__next__(self) ==
    IF ~self.has THEN [self |-> self, exc |-> "AttributeError", ret |-> NoneV]
    ELSE [self |-> [self EXCEPT !.num = @ + 2], exc |-> "None", ret |-> IntV(self.num)]

\* next() of a list iterator
list_iterator__next__(self) ==
    IF self.n < Len(self.items)
    THEN [self |-> [self EXCEPT !.n = @ + 1], exc |-> "None", ret |-> IntV(self.items[self.n + 1])]
    ELSE [self |-> self, exc |-> "StopIteration", ret |-> NoneV]

my_generator__next___Same(self) ==
    IF self.at < Len(my_generator)
    THEN LET seg == my_generator[self.at + 1]
         IN  [self |-> [self EXCEPT !.at = @ + 1, !.n = seg.k], exc |-> "None", ret |-> IntV(seg.k),
              prints |-> <<Line(seg.txt)>>]
    ELSE [self |-> [self EXCEPT !.at = Len(my_generator) + 1], exc |-> "StopIteration",
          ret |-> NoneV, prints |-> <<>>]

\* next() of a generator made by my_generator(): the body runs from where it was
\* suspended to the next yield, or to its end.
my_generator__next__(self) ==
    IF self.at < Len(my_generator)
    THEN LET seg == my_generator[self.at + 1]
             n == IF seg.assign THEN seg.k ELSE self.n + seg.k
         IN  [self |-> [self EXCEPT !.at = @ + 1, !.n = n], exc |-> "None", ret |-> IntV(n),
              prints |-> <<Line(seg.txt)>>]
    ELSE [self |-> [self EXCEPT !.at = Len(my_generator) + 1], exc |-> "StopIteration",
          ret |-> NoneV, prints |-> <<>>]

\* var = <a new object>
New(m, var, id, o) ==
    Ok([m EXCEPT !.obj[id] = o, !.ref[var] = id, !.bound = @ \cup {var}])

\* var = iter(of): the object's own __iter__, which returns self; a generator
\* and a list iterator are their own iterators.
iter(m, var, of) ==
    LET id == m.ref[of]
        o == m.obj[id]
        o2 == CASE o.cls = "Pow_of_Two" -> Pow_of_Two__iter__(o)
                [] o.cls = "Infinite_Iter" -> Infinite_Iter__iter__(o)
                [] OTHER -> o
    IN  Ok([m EXCEPT !.obj[id] = o2, !.ref[var] = id, !.bound = @ \cup {var}])

\* next(var), and print(next(var)) when show
next(m, var, show) ==
    LET id == m.ref[var]
        o == m.obj[id]
        r == CASE o.cls = "Pow_of_Two" -> Pow_of_Two__next__(o)
               [] o.cls = "Infinite_Iter" -> Infinite_Iter__next__(o)
               [] o.cls = "list_iterator" -> list_iterator__next__(o)
               [] o.cls = "generator" -> my_generator__next__(o)
        printed == IF o.cls = "generator" THEN r.prints ELSE <<>>
        shown == IF show /\ r.exc = "None" THEN <<LineV("{}", <<r.ret>>)>> ELSE <<>>
    IN  [m |-> [m EXCEPT !.obj[id] = r.self, !.out = @ \o printed \o shown],
         exc |-> r.exc, ret |-> r.ret]

RECURSIVE for_loop(_, _, _)
\* for var in <iterator it>: print(var).  The loop ends at StopIteration.
for_loop(m, var, it) ==
    LET r == next(m, it, FALSE)
    IN  IF r.exc = "StopIteration" THEN Ok(r.m)
        ELSE IF r.exc # "None" THEN Raise(r.m, r.exc)
        ELSE for_loop([Assign(r.m, var, r.ret) EXCEPT !.out = Append(@, LineV("{}", <<r.ret>>))],
                      var, it)

\* go_divide as defined: return a/b (wrapped keeps the calls it received)
go_divide(m, a, b) ==
    LET called == [m EXCEPT !.wrapped = Append(@, <<a, b>>)]
    IN  IF b = 0 THEN Raise(called, "ZeroDivisionError") ELSE Result(called, FloatV(a, b))

inner_func_TestsX(m, x, y) ==
    LET said == [m EXCEPT !.out = Append(@, Line("I am dividing x, and y"))]
    IN  IF x = 0
        THEN Result([said EXCEPT !.out = Append(@, Line("Oops! Division by Zero is illegal... !!!"))], NoneV)
        ELSE go_divide(said, x, y)

\* inner_func(x, y) of my_smart_div(go_divide): the decorated go_divide
inner_func(m, x, y) ==
    LET said == [m EXCEPT !.out = Append(@, Line("I am dividing x, and y"))]
    IN  IF y = 0
        THEN Result([said EXCEPT !.out = Append(@, Line("Oops! Division by Zero is illegal... !!!"))], NoneV)
        ELSE go_divide(said, x, y)

\* print(txt, go_divide(x, y))
call_show(m, txt, x, y) ==
    LET r == inner_func(m, x, y)
    IN  IF r.exc # "None" THEN r
        ELSE Ok([r.m EXCEPT !.out = Append(@, LineV(txt, <<r.ret>>))])

\* ------------------------------------------------------------- dictionaries

\* A dict is the sequence of its items (k, v) in insertion order.
Keys(d) == {d[k].n : k \in DOMAIN d}
Without(d, key) == SelectSeq(d, LAMBDA it : it.n # key)
Lookup(d, key) == (CHOOSE it \in {d[k] : k \in DOMAIN d} : it.n = key).d

\* print(squares.pop(key))
dict_pop(m, key) ==
    IF key \notin Keys(m.squares) THEN Raise(m, "KeyError")
    ELSE Ok([m EXCEPT !.squares = Without(@, key),
                      !.out = Append(@, LineV("{}", <<IntV(Lookup(m.squares, key))>>))])

\* The item popitem() removes from d: "an arbitrary item"; the last one inserted
\* since Python 3.7.  pick is the interpreter's choice.
PopitemChoice(d, pick) == d[((pick - 1) % Len(d)) + 1]

\* print(squares.popitem())
dict_popitem(m) ==
    IF m.squares = <<>> THEN Raise(m, "KeyError")
    ELSE LET it == PopitemChoice(m.squares, m.pick)
         IN  Ok([m EXCEPT !.squares = Without(@, it.n), !.out = Append(@, LineV("{}", <<it>>))])

\* del squares[key]
dict_del(m, key) ==
    IF key \notin Keys(m.squares) THEN Raise(m, "KeyError")
    ELSE Ok([m EXCEPT !.squares = Without(@, key)])

\* print(squares)
dict_show(m) == Ok([m EXCEPT !.out = Append(@, LineV("{dict}", m.squares))])

\* ------------------------------------------------------------------ scopes

FuncV == [t |-> "function", n |-> 0, d |-> 1]

\* The body of a function.
FnBody(fn) ==
    CASE fn = "func1" -> func1
      [] fn = "func2" -> func2

\* The frame of a call that has bound nothing yet.
NoFrame(fn) == [fn |-> fn, has |-> {}, val |-> [v \in VarNames |-> NoneV]]

\* The names a body declares global.
GlobalDecls_None(body) == {}

GlobalDecls(body) == {body[k].arg : k \in {j \in DOMAIN body : body[j].op = "global"}}

\* The names a body binds (assignment or def), which the compiler makes local
\* to the function unless the body declares them global.
Assigned(body) ==
    {body[k].arg.var : k \in {j \in DOMAIN body : body[j].op = "store"}}
        \cup {body[k].arg : k \in {j \in DOMAIN body : body[j].op = "def"}}
Locals(body) == Assigned(body) \ GlobalDecls(body)

\* A namespace with name set to v (only the values of VarNames are kept).
Put(val, name, v) == IF name \in VarNames THEN [val EXCEPT ![name] = v] ELSE val
Get(val, name) == IF name \in VarNames THEN val[name] ELSE FuncV

\* name = v in the running scope: the module's namespace at top level or when
\* the running function declares name global, the function's frame otherwise.
StoreName(m, name, v) ==
    LET d == Len(m.frames)
    IN  IF d = 0 \/ name \in GlobalDecls(FnBody(m.frames[d].fn))
        THEN [m EXCEPT !.bound = @ \cup {name}, !.val = Put(@, name, v)]
        ELSE [m EXCEPT !.frames[d].has = @ \cup {name}, !.frames[d].val = Put(@, name, v)]

\* The value of name read in the scope of frame d (0: the module): a name the
\* function declares global is read from the module, a local from the frame, any
\* other from the enclosing function (here the caller) and then the module.
RECURSIVE LoadName(_, _, _)
LoadName(m, d, name) ==
    IF d = 0
    THEN IF name \in m.bound THEN [exc |-> "None", v |-> Get(m.val, name)]
         ELSE [exc |-> "NameError", v |-> NoneV]
    ELSE LET f == m.frames[d]
             body == FnBody(f.fn)
         IN  CASE name \in GlobalDecls(body) -> LoadName(m, 0, name)
               [] name \in Locals(body) ->
                    IF name \in f.has THEN [exc |-> "None", v |-> Get(f.val, name)]
                    ELSE [exc |-> "UnboundLocalError", v |-> NoneV]
               [] OTHER -> LoadName(m, d - 1, name)

RECURSIVE CallFn(_, _), ScopeEff(_, _), RunBody(_, _, _)

\* name(): the function is looked up, its body runs in a new frame, and the
\* frame is dropped when the body ends or raises.
CallFn(m, name) ==
    LET f == LoadName(m, Len(m.frames), name)
    IN  IF f.exc # "None" THEN Raise(m, f.exc)
        ELSE LET r == RunBody(FnBody(name), 1, [m EXCEPT !.frames = Append(@, NoFrame(name))])
             IN  [r EXCEPT !.m.frames = SubSeq(@, 1, Len(@) - 1)]

\* One statement of example16.py, at top level or in a function body.
ScopeEff(s, m) ==
    CASE s.op = "global" -> Ok(m)
      [] s.op = "store" -> Ok(StoreName(m, s.arg.var, IntV(s.arg.v)))
      [] s.op = "def" -> Ok(StoreName(m, s.arg, FuncV))
      [] s.op = "print" -> Ok([m EXCEPT !.out = Append(@, Line(s.arg))])
      [] s.op = "print_name" ->
            LET l == LoadName(m, Len(m.frames), s.arg.var)
            IN  IF l.exc # "None" THEN Raise(m, l.exc)
                ELSE Ok([m EXCEPT !.out = Append(@, LineV(s.arg.txt, <<l.v>>))])
      [] s.op = "call_fn" -> CallFn(m, s.arg)

\* The statements of a body from the i-th on, up to the first that raises.
RunBody(body, i, m) ==
    IF i > Len(body) THEN Ok(m)
    ELSE LET r == ScopeEff(body[i], m)
         IN  IF r.exc # "None" THEN r ELSE RunBody(body, i + 1, r.m)

\* The statement s run in memory m: the memory after it, the exception it raises
\* ("None": none) and the value it returns.
Eff(s, m) ==
    IF ~(s.uses \subseteq m.bound) THEN Raise(m, "NameError")
    ELSE CASE s.op = "exec" ->
                Ok([m EXCEPT !.out = @ \o s.arg.prints, !.bound = @ \cup s.arg.binds])
           [] s.op = "assert" -> assert_stmt(m, s.arg)
           [] s.op = "del" -> del_name(m, s.arg)
           [] s.op = "raise" -> Raise(m, s.arg)
           [] s.op = "open_w" -> open_w(m, s.arg)
           [] s.op = "chdir" -> os_chdir(m)
           [] s.op = "mkdir" -> os_mkdir(m, s.arg)
           [] s.op = "rename" -> os_rename(m, s.arg[1], s.arg[2])
           [] s.op = "chmod" -> os_chmod(m, s.arg)
           [] s.op = "remove" -> os_remove(m, s.arg)
           [] s.op = "rmdir" -> os_rmdir(m, s.arg)
           [] s.op = "assign" -> Ok(Assign(m, s.arg.var, IntV(s.arg.v)))
           [] s.op = "assign_str" ->
                Ok([m EXCEPT !.str[s.arg.var] = s.arg.s, !.bound = @ \cup {s.arg.var}])
           [] s.op = "int_input" -> int_input(m, s.arg.var, s.arg.prompt)
           [] s.op = "int_of" -> int_of(m, s.arg.var, s.arg.from)
           [] s.op = "raise_if_neg" -> raise_if_neg(m, s.arg.var, s.arg.exc)
           [] s.op = "truediv" -> truediv(m, s.arg.x, s.arg.y, s.arg.z)
           [] s.op = "print_fmt" -> print_fmt(m, s.arg.fmt, s.arg.vars)
           [] s.op = "gen_new" -> New(m, s.arg.var, s.arg.id, [NoObj EXCEPT !.cls = "generator"])
           [] s.op = "list_iter" ->
                New(m, s.arg.var, s.arg.id, [NoObj EXCEPT !.cls = "list_iterator", !.items = s.arg.items])
           [] s.op = "pow_new" -> New(m, s.arg.var, s.arg.id, Pow_of_Two__init__(s.arg.max))
           [] s.op = "inf_new" -> New(m, s.arg.var, s.arg.id, [NoObj EXCEPT !.cls = "Infinite_Iter"])
           [] s.op = "iter" -> iter(m, s.arg.var, s.arg.of)
           [] s.op = "next" -> next(m, s.arg.var, s.arg.show)
           [] s.op = "for_gen" ->
                for_loop(New(m, "it", s.arg.id, [NoObj EXCEPT !.cls = "generator"]).m, s.arg.var, "it")
           [] s.op = "call" -> inner_func(m, s.arg.x, s.arg.y)
           [] s.op = "call_show" -> call_show(m, s.arg.txt, s.arg.x, s.arg.y)
           [] s.op = "dict_new" -> Ok([m EXCEPT !.squares = s.arg, !.bound = @ \cup {"squares"}])
           [] s.op = "dict_show" -> dict_show(m)
           [] s.op = "dict_pop" -> dict_pop(m, s.arg)
           [] s.op = "dict_popitem" -> dict_popitem(m)
           [] s.op = "dict_del" -> dict_del(m, s.arg)
           [] s.op = "dict_clear" -> Ok([m EXCEPT !.squares = <<>>])
           [] s.op \in {"def", "store", "print", "print_name", "call_fn"} -> ScopeEff(s, m)

\* ------------------------------------------------------------------ control

NoTry == [phase |-> "none", i |-> 0, exc |-> "None"]

\* The script has ended: past its last statement, or stopped by an exception.
Ended == uncaught # "None" \/ pc > Len(Program(script))
\* The script ran its last top-level statement to completion.
Completed == uncaught = "None" /\ pc > Len(Program(script))

Cur == Program(script)[pc]

\* The memory a script starts in.
Mem0 ==
    [out |-> <<>>, bound |-> {}, fs |-> [n \in Names |-> "absent"], cwdExists |-> TRUE,
     created |-> {}, fs0 |-> [n \in Names |-> "absent"], stdin |-> <<>>, rd |-> 1,
     val |-> [v \in VarNames |-> NoneV], str |-> [v \in VarNames |-> <<>>],
     optimize |-> FALSE,
     obj |-> [o \in ObjIds |-> NoObj], ref |-> [v \in VarNames \cup {"it"} |-> "o1"],
     wrapped |-> <<>>, squares |-> <<>>, pick |-> 1, frames |-> <<>>]

\* The lines of at most n characters.
RECURSIVE StrUpTo(_)
StrUpTo(n) ==
    IF n = 0 THEN {<<>>}
    ELSE StrUpTo(n - 1) \cup {Append(s, c) : s \in {x \in StrUpTo(n - 1) : Len(x) = n - 1}, c \in Chars}

\* What is typed on standard input: no line, one line or two.
Stdins ==
    LET L == StrUpTo(MaxLen)
    IN  {<<>>} \cup {<<s>> : s \in L} \cup {<<s1, s2>> : s1 \in L, s2 \in L}

InitMem(s) ==
    CASE s = "directory_and_filemanage9" ->
            {[Mem0 EXCEPT !.fs = [n \in Names |-> IF n = "example.txt" THEN "absent" ELSE f[n]],
                          !.cwdExists = e] :
                f \in [Names \ {"example.txt"} -> Kinds], e \in BOOLEAN}
      [] s = "example5" ->
            {[Mem0 EXCEPT !.fs["example.txt"] = k, !.optimize = o] : k \in Kinds, o \in BOOLEAN}
      [] s = "example10" -> {[Mem0 EXCEPT !.pick = k] : k \in 1..4}
      [] s = "example26" -> {[Mem0 EXCEPT !.stdin = i] : i \in Stdins}
      [] OTHER -> {Mem0}

\* A script starts at its first statement, in a working directory and with a
\* standard input of the environment's choosing (fs0 keeps the directory as found).
InitScript ==
    /\ driver = "script"
    /\ script \in Scripts
    /\ unit = "__main__"
    /\ pc = 1
    /\ try = NoTry
    /\ uncaught = "None"
    /\ mem \in {[m EXCEPT !.fs0 = m.fs] : m \in InitMem(script)}
    /\ calls = <<>>

\* The definitions a caller exercises, and the script that holds each.
Units == {"my_generator", "Pow_of_Two", "Infinite_Iter", "go_divide", "func1"}
UnitScript(u) ==
    CASE u = "my_generator" -> "example33"
      [] u \in {"Pow_of_Two", "Infinite_Iter"} -> "example17"
      [] u = "go_divide" -> "decorators34"
      [] u = "func1" -> "example16"

\* A caller starts with the definition bound and nothing called.
InitClient ==
    /\ driver = "client"
    /\ unit \in Units
    /\ script = UnitScript(unit)
    /\ pc = 1
    /\ try = NoTry
    /\ uncaught = "None"
    /\ mem = [Mem0 EXCEPT !.bound = {unit}]
    /\ calls = <<>>

Init == InitScript \/ InitClient

\* One top-level statement other than try.
Run ==
    /\ driver = "script" /\ ~Ended /\ Cur.op # "try"
    /\ LET r == Eff(Cur, mem)
       IN  /\ mem' = r.m
           /\ uncaught' = r.exc
           /\ pc' = IF r.exc = "None" THEN pc + 1 ELSE pc
    /\ UNCHANGED <<driver, script, unit, try, calls>>

\* try: the block is entered.
TryEnter ==
    /\ driver = "script" /\ ~Ended /\ Cur.op = "try" /\ try.phase = "none"
    /\ try' = [phase |-> "body", i |-> 1, exc |-> "None"]
    /\ UNCHANGED <<driver, script, unit, pc, uncaught, mem, calls>>

AfterHandlers_NoFinally(stmt, e) == [phase |-> "leave", i |-> 0, exc |-> e]

\* Where control goes once the try body and the handlers are over: the finally
\* clause when the statement has one.
AfterHandlers(stmt, e) ==
    IF stmt.arg.finally # <<>> THEN [phase |-> "finally", i |-> 1, exc |-> e]
    ELSE [phase |-> "leave", i |-> 0, exc |-> e]

\* One statement of the try body.
TryBody ==
    /\ driver = "script" /\ ~Ended /\ Cur.op = "try" /\ try.phase = "body"
    /\ LET body == Cur.arg.body
           r == Eff(body[try.i], mem)
       IN  /\ mem' = r.m
           /\ try' = IF r.exc # "None" THEN [phase |-> "except", i |-> 1, exc |-> r.exc]
                     ELSE IF try.i < Len(body) THEN [try EXCEPT !.i = @ + 1]
                     ELSE AfterHandlers(Cur, "None")
    /\ UNCHANGED <<driver, script, unit, pc, uncaught, calls>>

\* Whether handler h catches exception e.
Catches(h, e) == h.all \/ e \in h.kinds

Select_Last(handlers, e) ==
    IF \E k \in 1..Len(handlers) : Catches(handlers[k], e)
    THEN CHOOSE k \in 1..Len(handlers) :
            /\ Catches(handlers[k], e)
            /\ \A j \in (k + 1)..Len(handlers) : ~Catches(handlers[j], e)
    ELSE 0

\* The index of the first except clause that catches e, 0 when none does.
Select(handlers, e) ==
    IF \E k \in 1..Len(handlers) : Catches(handlers[k], e)
    THEN CHOOSE k \in 1..Len(handlers) :
            /\ Catches(handlers[k], e)
            /\ \A j \in 1..(k - 1) : ~Catches(handlers[j], e)
    ELSE 0

\* The except clauses: the first one that matches runs, and the exception is
\* handled; with no match the exception stays pending.
TryExcept ==
    /\ driver = "script" /\ ~Ended /\ Cur.op = "try" /\ try.phase = "except"
    /\ LET k == Select(Cur.arg.handlers, try.exc)
       IN  IF k = 0
           THEN /\ try' = AfterHandlers(Cur, try.exc)
                /\ mem' = mem
           ELSE LET r == Eff(Cur.arg.handlers[k].body, mem)
                IN  /\ mem' = r.m
                    /\ try' = AfterHandlers(Cur, r.exc)
    /\ UNCHANGED <<driver, script, unit, pc, uncaught, calls>>

\* The finally clause.
TryFinally ==
    /\ driver = "script" /\ ~Ended /\ Cur.op = "try" /\ try.phase = "finally"
    /\ LET r == Eff(Cur.arg.finally[try.i], mem)
       IN  /\ mem' = r.m
           /\ try' = IF r.exc # "None" THEN [phase |-> "leave", i |-> 0, exc |-> r.exc]
                     ELSE IF try.i < Len(Cur.arg.finally) THEN [try EXCEPT !.i = @ + 1]
                     ELSE [phase |-> "leave", i |-> 0, exc |-> try.exc]
    /\ UNCHANGED <<driver, script, unit, pc, uncaught, calls>>

\* The try statement is left: a pending exception propagates.
TryLeave ==
    /\ driver = "script" /\ ~Ended /\ Cur.op = "try" /\ try.phase = "leave"
    /\ try' = NoTry
    /\ uncaught' = try.exc
    /\ pc' = IF try.exc = "None" THEN pc + 1 ELSE pc
    /\ UNCHANGED <<driver, script, unit, mem, calls>>

\* What a caller may call next: the constructor first, then the methods.
ClientOps(u, m) ==
    CASE u = "my_generator" ->
            IF "a" \notin m.bound
            THEN {Stmt(2, "gen_new", {"my_generator"}, [var |-> "a", id |-> "o1"])}
            ELSE {Stmt(2, "next", {"a"}, [var |-> "a", show |-> FALSE])}
      [] u = "Pow_of_Two" ->
            IF "a" \notin m.bound
            THEN {Stmt(25, "pow_new", {"Pow_of_Two"}, [var |-> "a", id |-> "o1", max |-> k]) : k \in 0..MaxPow}
            ELSE {Stmt(28, "iter", {"a"}, [var |-> "a", of |-> "a"]),
                  Stmt(32, "next", {"a"}, [var |-> "a", show |-> FALSE])}
      [] u = "Infinite_Iter" ->
            IF "a" \notin m.bound
            THEN {Stmt(49, "inf_new", {"Infinite_Iter"}, [var |-> "a", id |-> "o1"])}
            ELSE {Stmt(53, "iter", {"a"}, [var |-> "a", of |-> "a"]),
                  Stmt(57, "next", {"a"}, [var |-> "a", show |-> FALSE])}
      [] u = "go_divide" ->
            {Stmt(41, "call", {"go_divide"}, [x |-> x, y |-> y]) :
                x \in (-MaxArg)..MaxArg, y \in (-MaxArg)..MaxArg}
      [] u = "func1" -> {Stmt(12, "call_fn", {}, "func1")}

CallLimit(u) == IF u = "go_divide" THEN MaxDivCalls ELSE MaxCalls

\* The arguments of a call, as a pair.
CallArgs(c) ==
    CASE c.op = "call" -> <<c.arg.x, c.arg.y>>
      [] c.op = "pow_new" -> <<c.arg.max, 0>>
      [] OTHER -> <<0, 0>>

\* One call by the caller, which catches what it raises.  calls keeps, per call,
\* the arguments, the value returned, the exception raised, the lines printed
\* during the call and the calls the wrapped function received during it.
Call ==
    /\ driver = "client" /\ Len(calls) < CallLimit(unit)
    /\ \E c \in ClientOps(unit, mem) :
          LET r == Eff(c, mem)
          IN  /\ mem' = r.m
              /\ calls' = Append(calls,
                    [op |-> c.op, args |-> CallArgs(c), ret |-> r.ret, exc |-> r.exc,
                     printed |-> SubSeq(r.m.out, Len(mem.out) + 1, Len(r.m.out)),
                     invoked |-> SubSeq(r.m.wrapped, Len(mem.wrapped) + 1, Len(r.m.wrapped))])
    /\ UNCHANGED <<driver, script, unit, pc, try, uncaught>>

Next == Run \/ TryEnter \/ TryBody \/ TryExcept \/ TryFinally \/ TryLeave \/ Call

Spec == Init /\ [][Next]_vars

\* ------------------------------------------------------------------ claims

Range(f) == {f[k] : k \in DOMAIN f}
\* The positions of standard output that hold the text txt.
Occ(txt) == {i \in DOMAIN mem.out : mem.out[i].txt = txt}
\* The texts a statement can write to standard output.
StmtTxts(s) ==
    CASE s.op = "exec" -> {l.txt : l \in Range(s.arg.prints)}
      [] s.op = "int_input" -> {s.arg.prompt}
      [] s.op = "print_fmt" -> {s.arg.fmt}
      [] OTHER -> {}
\* The texts the body and the handlers of a try statement can write.
TryTxts(s) ==
    UNION {StmtTxts(b) : b \in Range(s.arg.body)}
        \cup UNION {StmtTxts(h.body) : h \in Range(s.arg.handlers)}

\* The working directory directory_and_filemanage9.py is written for: the
\* directory it changes to exists and holds a regular file Test.txt and neither
\* test_folder nor New_folder.
C2_Started ==
    /\ mem.cwdExists
    /\ mem.fs0["Test.txt"] = "file"
    /\ mem.fs0["test_folder"] = "absent"
    /\ mem.fs0["New_folder"] = "absent"
\* The script runs in the environment it is written for.
Friendly == script = "directory_and_filemanage9" => C2_Started

\* C1: every script, started at its first statement (in the environment it is
\* written for), runs to the end of its last top-level statement: when a script
\* has ended, no uncaught exception ended it and its last statement has completed.
C1_RunsToCompletion == (driver = "script" /\ Friendly /\ Ended) => Completed

\* C2: directory_and_filemanage9.py, started in a directory that holds a regular
\* file Test.txt and neither test_folder nor New_folder, has ended only with the
\* directory it created (test_folder, renamed New_folder) gone again.
C2_CreatedDirectoryRemoved ==
    (driver = "script" /\ script = "directory_and_filemanage9" /\ C2_Started /\ Ended)
        => (mem.fs["test_folder"] = "absent" /\ mem.fs["New_folder"] = "absent")

\* C3: no script leaves persistent data: when a script (run in the environment it
\* is written for) has ended, nothing it created in the working directory is
\* still there.
C3_NothingCreatedPersists == (driver = "script" /\ Friendly /\ Ended) => mem.created = {}

\* C4: in every try/except/finally statement the finally clause runs exactly once
\* on every path (no output of it before the statement is left, exactly one after),
\* and its output follows every output of the try body and of the handlers.
C4_FinallyExactlyOnce ==
    driver = "script" =>
        \A k \in DOMAIN Program(script) :
            LET s == Program(script)[k]
            IN  (s.op = "try" /\ s.arg.finally # <<>>) =>
                    LET f == s.arg.finally[1].arg.prints[1].txt
                        entered == pc > k \/ (pc = k /\ (try.phase # "none" \/ uncaught # "None"))
                        left == pc > k \/ (pc = k /\ (try.phase = "leave" \/ uncaught # "None"))
                    IN  /\ Cardinality(Occ(f)) = IF left THEN 1 ELSE 0
                        /\ ~entered => \A i \in DOMAIN mem.out : mem.out[i].txt \notin TryTxts(s)
                        /\ \A i \in Occ(f) : \A j \in DOMAIN mem.out :
                                mem.out[j].txt \in TryTxts(s) => j < i

\* C4's case: example26.py left its try statement through the catch-all handler,
\* and the finally clause has run.
C4_Witness ==
    /\ script = "example26" /\ Completed
    /\ Occ("default exception handling if none of the exception matches...") # {}
    /\ Occ("Anyways i will exceute") # {}

\* The integer a line of standard input spells, read left to right.
RECURSIVE Horner(_, _)
Horner(s, acc) ==
    IF s = <<>> THEN acc
    ELSE Horner(Tail(s), 10 * acc + (CASE Head(s) = "0" -> 0 [] Head(s) = "1" -> 1 [] Head(s) = "2" -> 2
                                       [] Head(s) = "3" -> 3 [] Head(s) = "4" -> 4 [] Head(s) = "5" -> 5
                                       [] Head(s) = "6" -> 6 [] Head(s) = "7" -> 7 [] Head(s) = "8" -> 8
                                       [] Head(s) = "9" -> 9))
IsLit(s) ==
    LET ds == {"0", "1", "2", "3", "4", "5", "6", "7", "8", "9"}
    IN  \/ Len(s) >= 1 /\ \A k \in 1..Len(s) : s[k] \in ds
        \/ Len(s) >= 2 /\ s[1] \in {"-", "+"} /\ \A k \in 2..Len(s) : s[k] \in ds
LitVal(s) == IF s[1] = "-" THEN -Horner(Tail(s), 0) ELSE IF s[1] = "+" THEN Horner(Tail(s), 0) ELSE Horner(s, 0)

\* The outcome line the claim gives the typed input: by the kind of error.
C5_Expected(in) ==
    LET default == Line("default exception handling if none of the exception matches...")
        value == Line("The data types are not proper...")
    IN  IF Len(in) = 0 THEN default
        ELSE IF ~IsLit(in[1]) THEN value
        ELSE IF Len(in) = 1 THEN default
        ELSE IF ~IsLit(in[2]) THEN value
        ELSE IF LitVal(in[1]) < 0 THEN Line("The data is not in range...")
        ELSE IF LitVal(in[2]) = 0 THEN Line("Division by zero is not possible...")
        ELSE LineV("{} / {} = {}", <<IntV(LitVal(in[1])), IntV(LitVal(in[2])),
                                     FloatV(LitVal(in[1]), LitVal(in[2]))>>)

\* C5: example26.py prints exactly one outcome line, then the finally line: the
\* quotient when nothing is raised, the ZeroDivisionError, ValueError or TypeError
\* line for an error of that kind, and the default line for any other error; all
\* output before the outcome line is the prompts of input().
C5_OneOutcomeByKind ==
    (driver = "script" /\ script = "example26" /\ Ended) =>
        LET n == Len(mem.out)
        IN  /\ uncaught = "None"
            /\ n >= 2
            /\ mem.out[n] = Line("Anyways i will exceute")
            /\ mem.out[n - 1] = C5_Expected(mem.stdin)
            /\ \A i \in 1..(n - 2) :
                    mem.out[i].txt \in {"Please enter the first number:", "Please enter the second number:"}

\* C5's case: a negative first number and a zero second one were typed, and the
\* TypeError line, not the ZeroDivisionError line, was printed.
C5_Witness ==
    /\ script = "example26" /\ Completed
    /\ mem.val["a"].n < 0 /\ mem.val["b"] = IntV(0)
    /\ Occ("The data is not in range...") # {}

\* The index of the top-level statement of the running script at a source line,
\* and whether that statement has run to completion.
StmtAt(line) == CHOOSE k \in DOMAIN Program(script) : Program(script)[k].line = line
After(line) == pc > StmtAt(line)

\* How many of the first i calls are calls of next().
NextsUpTo(i) == Cardinality({j \in 1..i : calls[j].op = "next"})
\* The last call of iter() before call i, 0 when there is none.
LastIter(i) ==
    LET S == {j \in 1..(i - 1) : calls[j].op = "iter"}
    IN  IF S = {} THEN 0 ELSE CHOOSE j \in S : \A l \in S : l <= j
\* Call i is the k-th next() since the last iter().
NextsSinceIter(i) == Cardinality({j \in (LastIter(i) + 1)..i : calls[j].op = "next"})

C6_Msgs == <<"This is printed first", "This is printed second", "This is printed third">>

\* C6: successive next() calls on one my_generator() generator return 1, 2, 3 and
\* the fourth (and any later one) raises StopIteration; creating the generator
\* prints nothing, and the k-th next() prints the k-th message, once, before it
\* returns k.  In example33.py the three next(a) calls print the three messages
\* and the for loop prints each message before its value, then ends.
C6_GeneratorYieldsInOrder ==
    /\ (driver = "client" /\ unit = "my_generator") =>
            \A i \in DOMAIN calls :
                LET c == calls[i]
                    k == NextsUpTo(i)
                IN  /\ c.op = "gen_new" => (c.printed = <<>> /\ c.exc = "None")
                    /\ (c.op = "next" /\ k <= 3) =>
                            (c.exc = "None" /\ c.ret = IntV(k) /\ c.printed = <<Line(C6_Msgs[k])>>)
                    /\ (c.op = "next" /\ k > 3) => (c.exc = "StopIteration" /\ c.printed = <<>>)
    /\ (driver = "script" /\ script = "example33") =>
            /\ uncaught = "None"
            /\ (After(16) /\ ~After(18)) => mem.out = <<>>
            /\ (After(18) /\ ~After(19)) => mem.out = <<Line(C6_Msgs[1])>>
            /\ (After(19) /\ ~After(20)) => mem.out = <<Line(C6_Msgs[1]), Line(C6_Msgs[2])>>
            /\ After(20) => SubSeq(mem.out, 1, 3) = <<Line(C6_Msgs[1]), Line(C6_Msgs[2]), Line(C6_Msgs[3])>>
            /\ After(24) => SubSeq(mem.out, 5, 10) =
                    <<Line(C6_Msgs[1]), LineV("{}", <<IntV(1)>>), Line(C6_Msgs[2]), LineV("{}", <<IntV(2)>>),
                      Line(C6_Msgs[3]), LineV("{}", <<IntV(3)>>)>>

\* C6's case: a caller's fourth next() on one generator raised StopIteration.
C6_Witness ==
    /\ driver = "client" /\ unit = "my_generator"
    /\ \E i \in DOMAIN calls : NextsUpTo(i) = 4 /\ calls[i].op = "next" /\ calls[i].exc = "StopIteration"

\* C7: for Pow_of_Two(max), max >= 0, the k-th next() after an iter() returns
\* 2**(k-1) for k <= max+1 (1 first, then twice the value before) and raises
\* StopIteration for every k > max+1, until iter() is called again; n never
\* exceeds max+1.
C7_PowersOfTwo ==
    (driver = "client" /\ unit = "Pow_of_Two" /\ calls # <<>>) =>
        LET max == calls[1].args[1]
        IN  /\ mem.obj["o1"].has => mem.obj["o1"].n <= max + 1
            /\ \A i \in DOMAIN calls :
                (calls[i].op = "next" /\ LastIter(i) > 0) =>
                    LET k == NextsSinceIter(i)
                    IN  /\ k <= max + 1 =>
                            /\ calls[i].exc = "None"
                            /\ calls[i].ret.t = "int"
                            /\ k = 1 => calls[i].ret.n = 1
                            /\ k > 1 => calls[i].ret.n = 2 * calls[i - 1].ret.n
                        /\ k > max + 1 => (calls[i].exc = "StopIteration" /\ calls[i].ret = NoneV)

\* C7's case: Pow_of_Two(max) with max >= 1 returned its max+1 values, and two
\* next() calls in a row after them raised StopIteration.
C7_Witness ==
    /\ driver = "client" /\ unit = "Pow_of_Two" /\ calls # <<>> /\ calls[1].args[1] >= 1
    /\ \E i \in DOMAIN calls :
        /\ i > 1 /\ calls[i].op = "next" /\ calls[i - 1].op = "next"
        /\ calls[i].exc = "StopIteration" /\ calls[i - 1].exc = "StopIteration"
        /\ NextsSinceIter(i) = calls[1].args[1] + 3

\* C8: after iter(), the k-th next() of an Infinite_Iter returns 2k-1: an odd
\* number, larger than the one before; next() never raises StopIteration.
C8_OddNumbers ==
    (driver = "client" /\ unit = "Infinite_Iter") =>
        \A i \in DOMAIN calls :
            /\ calls[i].exc # "StopIteration"
            /\ (calls[i].op = "next" /\ LastIter(i) > 0) =>
                    LET k == NextsSinceIter(i)
                    IN  /\ calls[i].exc = "None"
                        /\ calls[i].ret = IntV(2 * k - 1)
                        /\ calls[i].ret.n % 2 = 1
                        /\ k > 1 => calls[i].ret.n > calls[i - 1].ret.n

\* C8's case: the fourth next() after an iter() returned 7.
C8_Witness ==
    /\ driver = "client" /\ unit = "Infinite_Iter"
    /\ \E i \in DOMAIN calls :
        calls[i].op = "next" /\ LastIter(i) > 0 /\ NextsSinceIter(i) = 4 /\ calls[i].ret = IntV(7)

\* C9: every call go_divide(x, y) of the decorated function first prints
\* 'I am dividing x, and y'; with y = 0 it prints the division-by-zero message,
\* returns None and does not call the wrapped function (no ZeroDivisionError);
\* with y # 0 it calls the wrapped function once, with (x, y), and returns its
\* result x / y.
C9_SmartDivide ==
    (driver = "client" /\ unit = "go_divide") =>
        \A i \in DOMAIN calls :
            LET c == calls[i]
                x == c.args[1]
                y == c.args[2]
            IN  /\ c.printed # <<>> /\ c.printed[1] = Line("I am dividing x, and y")
                /\ c.exc # "ZeroDivisionError"
                /\ y = 0 =>
                    /\ c.printed = <<Line("I am dividing x, and y"),
                                     Line("Oops! Division by Zero is illegal... !!!")>>
                    /\ c.ret = NoneV /\ c.exc = "None" /\ c.invoked = <<>>
                /\ y # 0 =>
                    /\ c.printed = <<Line("I am dividing x, and y")>>
                    /\ c.invoked = <<(<<x, y>>)>>
                    /\ c.exc = "None" /\ c.ret = FloatV(x, y)

\* C9's case: a call with a zero divisor and a non-zero dividend returned None.
C9_Witness ==
    /\ driver = "client" /\ unit = "go_divide"
    /\ \E i \in DOMAIN calls :
        calls[i].args[1] # 0 /\ calls[i].args[2] = 0 /\ calls[i].ret = NoneV /\ calls[i].exc = "None"

\* C10: in example10.py, whichever item popitem() removes, the removal sequence
\* raises no KeyError, pop(4) prints 16, and squares has 4, 3, 2 and 0 entries
\* after pop(4), popitem(), del squares[1] and clear().
C10_RemovalSequence ==
    (driver = "script" /\ script = "example10") =>
        /\ uncaught # "KeyError"
        /\ After(20) => mem.out[7] = LineV("{}", <<IntV(16)>>)
        /\ (After(20) /\ ~After(24)) => Len(mem.squares) = 4
        /\ (After(24) /\ ~After(28)) => Len(mem.squares) = 3
        /\ (After(28) /\ ~After(32)) => Len(mem.squares) = 2
        /\ (After(32) /\ ~After(36)) => Len(mem.squares) = 0

\* What one call of func1 prints.
C11_Func1Lines ==
    << LineV("Before calling function2:", <<IntV(20)>>),
       Line("Calling func2 now..."),
       LineV("After calling func2:", <<IntV(20)>>) >>

\* C11: in example16.py no module-level x exists before func1 is called; the
\* call of func1 prints 20 both before and after calling func2 and leaves the
\* module-level x bound to 25; the final print('Global x', x) raises nothing
\* and prints 25.  A caller's every call of func1 prints the same and leaves the
\* module-level x at 25.
C11_GlobalKeyword ==
    /\ (driver = "script" /\ script = "example16") =>
            /\ uncaught = "None"
            /\ mem.frames = <<>>
            /\ ~After(12) => ("x" \notin mem.bound /\ mem.out = <<>>)
            /\ After(12) =>
                    /\ "x" \in mem.bound /\ mem.val["x"] = IntV(25)
                    /\ Len(mem.out) >= 3 /\ SubSeq(mem.out, 1, 3) = C11_Func1Lines
            /\ After(13) => mem.out = Append(C11_Func1Lines, LineV("Global x", <<IntV(25)>>))
    /\ (driver = "client" /\ unit = "func1") =>
            /\ calls = <<>> => "x" \notin mem.bound
            /\ \A k \in DOMAIN calls :
                    /\ calls[k].exc = "None"
                    /\ calls[k].printed = C11_Func1Lines
            /\ calls # <<>> => ("x" \in mem.bound /\ mem.val["x"] = IntV(25))

\* C11's case: example16.py has called func1 and run its final print.
C11_Witness ==
    /\ driver = "script" /\ script = "example16" /\ Completed
    /\ Len(mem.out) = 4 /\ mem.out[4].txt = "Global x"
    /\ mem.val["x"] = IntV(25)

====
